---- MODULE Spec2Model ----
(***************************************************************************)
(* Model of src/generate_stages.py: the script that expands the in-source  *)
(* stage catalog into one bulk INSERT statement on standard output.        *)
(*                                                                         *)
(* Text.  A Python string is modelled as the sequence of its lexical       *)
(* tokens: each of the characters  space ' ( ) , ;  and newline is a token *)
(* of its own, and every maximal run of other characters is one token.     *)
(* String concatenation and f-string interpolation are \o.  A character    *)
(* outside ASCII is written uXXXX (its code point) inside a token.         *)
(***************************************************************************)
EXTENDS Integers, Sequences, FiniteSets

\* ------------------------------------------------------------------ bounds
\* Longest catalog the bounded specifications draw (a window of STAGES_DATA).
MaxStages == 3
\* Longest chord list of a drawn catalog entry (a prefix of the entry's list).
MaxChords == 2
\* Longest resource pool drawn (a prefix of BGM_URLS).
MaxPool == 2
\* Number of consecutive executions of the script in SpecRerun.
NumRuns == 2

\* ------------------------------------------------------- the literal data
\* A list of chord symbols, each a one-token string.
Symbols(names) == [k \in 1..Len(names) |-> <<names[k]>>]

BGM_URLS ==
  << <<"https://jazzify-cdn.com/fantasy-bgm/f1394110-0bc3-4e6b-86fe-70d2b5795a42.mp3">>,
     <<"https://jazzify-cdn.com/fantasy-bgm/9afb5319-7ebe-4e01-8bf2-4509b5c20de7.mp3">>,
     <<"https://jazzify-cdn.com/fantasy-bgm/26de516b-a972-4991-9110-37d10d9bae65.mp3">>,
     <<"https://jazzify-cdn.com/fantasy-bgm/717e9562-9612-46b0-8358-e170f5a5530d.mp3">> >>

Stages6 ==
  <<
  << <<"6-5">>, <<"u30AAu30FCu30EDu30E9u306Eu89B3u6E2Cu6240">>,
     << "u305Du306Eu4ED6u306E3u548Cu97F3", " ", "dim" >>,
     Symbols(<< "Cdim", "Ddim", "Edim", "Fdim", "Gdim", "Adim", "Bdim", "C#dim", "D#dim",
        "F#dim", "G#dim", "A#dim" >>) >>,
  << <<"6-6">>, <<"u6A39u6C37u306Eu68EE">>,
     << "u305Du306Eu4ED6u306E3u548Cu97F3", " ", "aug" >>,
     Symbols(<< "Caug", "Daug", "Eaug", "Faug", "Gaug", "Aaug", "Baug", "C#aug", "D#aug",
        "F#aug", "G#aug", "A#aug" >>) >>,
  << <<"6-7">>, <<"u96EAu5C71u306Eu79D8u6E6F">>,
     << "u305Du306Eu4ED6u306E3u548Cu97F3", " ", "dimu3068augu66F2" >>,
     Symbols(<< "Cdim", "Ddim", "Edim", "Fdim", "Gdim", "Adim", "Bdim", "C#dim", "D#dim",
        "F#dim", "G#dim", "A#dim", "Caug", "Daug", "Eaug", "Faug", "Gaug", "Aaug", "Baug",
        "C#aug", "D#aug", "F#aug", "G#aug", "A#aug" >>) >>,
  << <<"6-8">>, <<"u6C37u6676u306Eu57CEu585E">>,
     << "u305Du306Eu4ED6u306E3u548Cu97F3", " ", "u307Eu3068u3081u66F21" >>,
     Symbols(<< "Csus4", "Dsus4", "Esus4", "Fsus4", "Gsus4", "Asus4", "Bsus4", "C#sus4",
        "D#sus4", "F#sus4", "G#sus4", "A#sus4", "Cdim", "Ddim", "Edim", "Fdim", "Gdim", "Adim",
        "Bdim", "C#dim", "D#dim", "F#dim", "G#dim", "A#dim", "Caug", "Daug", "Eaug", "Faug",
        "Gaug", "Aaug", "Baug", "C#aug", "D#aug", "F#aug", "G#aug", "A#aug" >>) >>,
  << <<"6-9">>, <<"u6975u5BD2u306Eu7262u7344">>,
     << "u305Du306Eu4ED6u306E3u548Cu97F3", " ", "u307Eu3068u3081u66F22" >>,
     Symbols(<< "Csus4", "Dsus4", "Esus4", "Fsus4", "Gsus4", "Asus4", "Bsus4", "C#sus4",
        "D#sus4", "F#sus4", "G#sus4", "A#sus4", "Cdim", "Ddim", "Edim", "Fdim", "Gdim", "Adim",
        "Bdim", "C#dim", "D#dim", "F#dim", "G#dim", "A#dim", "Caug", "Daug", "Eaug", "Faug",
        "Gaug", "Aaug", "Baug", "C#aug", "D#aug", "F#aug", "G#aug", "A#aug" >>) >>,
  << <<"6-10">>, <<"u9280u4E16u754Cu306Eu96EAu539F">>,
     << "u30E1u30B8u30E3u30FCu3068u30DEu30A4u30CAu30FCu30C8u30E9u30A4u30A2u30C9", "(",
        "u5168u3066u306Eu30EBu30FCu30C8u3001single", ")" >>,
     Symbols(<< "C", "D", "E", "F", "G", "A", "B", "C#", "D#", "F#", "G#", "A#", "Cm", "Dm",
        "Em", "Fm", "Gm", "Am", "Bm", "C#m", "D#m", "F#m", "G#m", "A#m" >>) >>
  >>

Stages7 ==
  <<
  << <<"7-1">>, <<"u706Bu53E3u3078u306Eu9053">>,
     << "u5EA6u6570", " ", "2u5EA6u30683u5EA6" >>,
     Symbols(<< "C", "D", "E", "F", "G", "A", "B", "C#", "D#", "F#", "G#", "A#" >>) >>,
  << <<"7-2">>, <<"u6EB6u5CA9u306Eu56DEu5ECA">>,
     << "u5EA6u6570", " ", "4u5EA6u30685u5EA6" >>,
     Symbols(<< "C", "F", "G", "D", "A", "E", "B", "F#", "C#", "G#", "D#", "A#" >>) >>,
  << <<"7-3">>, <<"u708Eu306Eu935Bu51B6u5834">>,
     << "u5EA6u6570", " ", "6u5EA6u30687u5EA6" >>,
     Symbols(<< "C", "A", "B", "D", "E", "F", "G", "C#", "D#", "F#", "G#", "A#" >>) >>,
  << <<"7-4">>, <<"u7126u571Fu306Eu8352u91CE">>,
     << "u5EA6u6570", " ", "u4E0Au307Eu3068u30811" >>,
     Symbols(<< "C", "D", "E", "F", "G", "A", "B", "C#", "D#", "F#", "G#", "A#" >>) >>,
  << <<"7-5">>, <<"u5674u7159u306Eu5730u5E2F">>,
     << "u5EA6u6570", " ", "u4E0Au307Eu3068u30812" >>,
     Symbols(<< "C#", "D#", "F#", "G#", "A#" >>) >>,
  << <<"7-6">>, <<"u4E0Du6B7Bu9CE5u306Eu68F2u5BB6">>,
     << "u5EA6u6570", " ", "2u5EA6u30683u5EA6u4E0B" >>,
     Symbols(<< "C", "D", "E", "F", "G", "A", "B", "C#", "D#", "F#", "G#", "A#" >>) >>,
  << <<"7-7">>, <<"u7070u306Eu964Du308Bu8857">>,
     << "u5EA6u6570", " ", "4u5EA6u30685u5EA6u4E0B" >>,
     Symbols(<< "C", "F", "G", "D", "A", "E", "B", "F#", "C#", "G#", "D#", "A#" >>) >>,
  << <<"7-8">>, <<"u7344u708Eu306Eu795Eu6BBF">>,
     << "u5EA6u6570", " ", "6u5EA6u30687u5EA6u4E0B" >>,
     Symbols(<< "C", "A", "B", "D", "E", "F", "G", "C#", "D#", "F#", "G#", "A#" >>) >>,
  << <<"7-9">>, <<"u30DEu30B0u30DEu6E9Cu307Eu308A">>,
     << "u5EA6u6570", " ", "u4E0Bu307Eu3068u3081" >>,
     Symbols(<< "C", "F", "G", "D", "A", "E", "B", "F#", "C#", "G#", "D#", "A#" >>) >>,
  << <<"7-10">>, <<"u7149u7344u306Eu9580">>,
     << "u5EA6u6570", " ", "u4E0Au4E0BMIX" >>,
     Symbols(<< "C", "D", "E", "F", "G", "A", "B", "C#", "D#", "F#", "G#", "A#" >>) >>
  >>

Stages8 ==
  <<
  << <<"8-1">>, <<"u5929u7A7Au306Eu5EADu5712">>,
     <<
        "u30E1u30B8u30E3u30FCu30B9u30B1u30FCu30EBu3001u30CAu30C1u30E5u30E9u30EBu30DEu30A4u30CAu30FCu30B9u30B1u30FCu30EB",
        " ", "C.F.Gu306Eu307Fu3001single" >>,
     Symbols(<< "C", "F", "G", "Cm", "Fm", "Gm" >>) >>,
  << <<"8-2">>, <<"u6D6Eu904Au5927u9678u306Eu7E01">>,
     <<
        "u30E1u30B8u30E3u30FCu30B9u30B1u30FCu30EBu3001u30CAu30C1u30E5u30E9u30EBu30DEu30A4u30CAu30FCu30B9u30B1u30FCu30EB",
        " ", "D.A.E.Bu306Eu307Fu3001single" >>,
     Symbols(<< "D", "A", "E", "B", "Dm", "Am", "Em", "Bm" >>) >>,
  << <<"8-3">>, <<"u6B6Fu8ECAu306Eu6642u8A08u5854">>,
     <<
        "u30E1u30B8u30E3u30FCu30B9u30B1u30FCu30EBu3001u30CAu30C1u30E5u30E9u30EBu30DEu30A4u30CAu30FCu30B9u30B1u30FCu30EB",
        " ", "u266Du7CFBu306Eu307Fu3001single" >>,
     Symbols(<< "Db", "Eb", "Gb", "Ab", "Bb", "Dbm", "Ebm", "Gbm", "Abm", "Bbm" >>) >>,
  << <<"8-4">>, <<"u9B54u5C0Eu7814u7A76u6240">>,
     <<
        "u30E1u30B8u30E3u30FCu30B9u30B1u30FCu30EBu3001u30CAu30C1u30E5u30E9u30EBu30DEu30A4u30CAu30FCu30B9u30B1u30FCu30EB",
        " ", "u30B7u30E3u30FCu30D7u7CFBu306Eu307Fu3001single" >>,
     Symbols(<< "C#", "D#", "F#", "G#", "A#", "C#m", "D#m", "F#m", "G#m", "A#m" >>) >>,
  << <<"8-5">>, <<"u96F2u6D77u306Eu4E0A">>,
     <<
        "u30E1u30B8u30E3u30FCu30B9u30B1u30FCu30EBu3001u30CAu30C1u30E5u30E9u30EBu30DEu30A4u30CAu30FCu30B9u30B1u30FCu30EB",
        " ", "u307Eu3068u3081", "(",
        "u5168u3066u306Eu30E1u30B8u30E3u30FCu30C8u30E9u30A4u30A2u30C9u3001u30DEu30A4u30CAu30FCu30C8u30E9u30A4u30A2u30C9",
        ")", "u3001single" >>,
     Symbols(<< "C", "D", "E", "F", "G", "A", "B", "C#", "D#", "F#", "G#", "A#", "Db", "Eb",
        "Gb", "Ab", "Bb", "Cm", "Dm", "Em", "Fm", "Gm", "Am", "Bm", "C#m", "D#m", "F#m", "G#m",
        "A#m", "Dbm", "Ebm", "Gbm", "Abm", "Bbm" >>) >>,
  << <<"8-6">>, <<"u96F7u9CF4u306Eu5E73u539F">>,
     <<
        "u30E1u30B8u30E3u30FCu30B9u30B1u30FCu30EBu3001u30CAu30C1u30E5u30E9u30EBu30DEu30A4u30CAu30FCu30B9u30B1u30FCu30EB",
        " ", "Am.Dm.Emu306Eu307Fu3001single" >>,
     Symbols(<< "Am", "Dm", "Em" >>) >>,
  << <<"8-7">>, <<"u661Fu8A60u307Fu306Eu53F0u5EA7">>,
     <<
        "u30E1u30B8u30E3u30FCu30B9u30B1u30FCu30EBu3001u30CAu30C1u30E5u30E9u30EBu30DEu30A4u30CAu30FCu30B9u30B1u30FCu30EB",
        " ", "Cm.Fm.Gmu306Eu307Fu3001single" >>,
     Symbols(<< "Cm", "Fm", "Gm" >>) >>,
  << <<"8-8">>, <<"u98DBu7A7Au8247u30C9u30C3u30AF">>,
     <<
        "u30E1u30B8u30E3u30FCu30B9u30B1u30FCu30EBu3001u30CAu30C1u30E5u30E9u30EBu30DEu30A4u30CAu30FCu30B9u30B1u30FCu30EB",
        " ", "Bm.Bbm", ",", "F#mu306Eu307Fu3001single" >>,
     Symbols(<< "Bm", "Bbm", "F#m" >>) >>,
  << <<"8-9">>, <<"u8679u306Eu67B6u3051u6A4B">>,
     <<
        "u30E1u30B8u30E3u30FCu30B9u30B1u30FCu30EBu3001u30CAu30C1u30E5u30E9u30EBu30DEu30A4u30CAu30FCu30B9u30B1u30FCu30EB",
        " ", "u9ED2u9375u3060u3051", "(", "#u7CFBu3068u266Du7CFBu5168u3066", ")", "u3001single" >>,
     Symbols(<< "C#", "D#", "F#", "G#", "A#", "Db", "Eb", "Gb", "Ab", "Bb", "C#m", "D#m",
        "F#m", "G#m", "A#m", "Dbm", "Ebm", "Gbm", "Abm", "Bbm" >>) >>,
  << <<"8-10">>, <<"u98A8u306Eu901Au308Au9053">>,
     <<
        "u30E1u30B8u30E3u30FCu30B9u30B1u30FCu30EBu3001u30CAu30C1u30E5u30E9u30EBu30DEu30A4u30CAu30FCu30B9u30B1u30FCu30EB",
        " ", "u307Eu3068u3081", "(",
        "u5168u3066u306Eu30E1u30B8u30E3u30FCu30C8u30E9u30A4u30A2u30C9u3001u30DEu30A4u30CAu30FCu30C8u30E9u30A4u30A2u30C9",
        ")", "u3001single" >>,
     Symbols(<< "C", "D", "E", "F", "G", "A", "B", "C#", "D#", "F#", "G#", "A#", "Db", "Eb",
        "Gb", "Ab", "Bb", "Cm", "Dm", "Em", "Fm", "Gm", "Am", "Bm", "C#m", "D#m", "F#m", "G#m",
        "A#m", "Dbm", "Ebm", "Gbm", "Abm", "Bbm" >>) >>
  >>

Stages9 ==
  <<
  << <<"9-1">>, <<"u5FD8u5374u306Eu5893u5730">>,
     << "4u548Cu97F3", " ", "u30E1u30B8u30E3u30FCu30BBu30D6u30F3u30B9", "(",
        "u5168u3066u306Eu30EBu30FCu30C8u3001single", ")" >>,
     Symbols(<< "CM7", "DM7", "EM7", "FM7", "GM7", "AM7", "BM7", "C#M7", "D#M7", "F#M7",
        "G#M7", "A#M7" >>) >>,
  << <<"9-2">>, <<"u546Au308Fu308Cu305Fu5EC3u6751">>,
     << "4u548Cu97F3", " ", "u30DEu30A4u30CAu30FCu30BBu30D6u30F3u30B9", "(",
        "u5168u3066u306Eu30EBu30FCu30C8u3001single", ")" >>,
     Symbols(<< "Cm7", "Dm7", "Em7", "Fm7", "Gm7", "Am7", "Bm7", "C#m7", "D#m7", "F#m7",
        "G#m7", "A#m7" >>) >>,
  << <<"9-3">>, <<"u5E7Du970Au5217u8ECAu306Eu99C5">>,
     << "4u548Cu97F3", " ", "u30BBu30D6u30F3u30B9", "(",
        "u5168u3066u306Eu30EBu30FCu30C8u3001single", ")" >>,
     Symbols(<< "C7", "D7", "E7", "F7", "G7", "A7", "B7", "C#7", "D#7", "F#7", "G#7", "A#7" >>) >>,
  << <<"9-4">>, <<"u30ABu30DCu30C1u30E3u306Eu7551">>,
     << "4u548Cu97F3", " ",
        "u30DEu30A4u30CAu30FCu30BBu30D6u30F3u30B9u30D5u30E9u30C3u30C8u30D5u30A1u30A4u30D6",
        "(", "u5168u3066u306Eu30EBu30FCu30C8u3001single", ")" >>,
     Symbols(<< "Cm7b5", "Dm7b5", "Em7b5", "Fm7b5", "Gm7b5", "Am7b5", "Bm7b5", "C#m7b5",
        "D#m7b5", "F#m7b5", "G#m7b5", "A#m7b5" >>) >>,
  << <<"9-5">>, <<"u9B54u5973u306Eu9928">>,
     << "4u548Cu97F3", " ", "u30E1u30B8u30E3u30FCu30BBu30D6u30F3u30B9", "(",
        "u5168u3066u306Eu30EBu30FCu30C8u3001timing_random", ")" >>,
     Symbols(<< "CM7", "DM7", "EM7", "FM7", "GM7", "AM7", "BM7", "C#M7", "D#M7", "F#M7",
        "G#M7", "A#M7" >>) >>,
  << <<"9-6">>, <<"u8840u306Eu6C60">>,
     << "4u548Cu97F3", " ", "u30DEu30A4u30CAu30FCu30BBu30D6u30F3u30B9", "(",
        "u5168u3066u306Eu30EBu30FCu30C8u3001timing_random", ")" >>,
     Symbols(<< "Cm7", "Dm7", "Em7", "Fm7", "Gm7", "Am7", "Bm7", "C#m7", "D#m7", "F#m7",
        "G#m7", "A#m7" >>) >>,
  << <<"9-7">>, <<"u67AFu308Cu6728u306Eu68EE">>,
     << "4u548Cu97F3", " ", "u30BBu30D6u30F3u30B9", "(",
        "u5168u3066u306Eu30EBu30FCu30C8u3001timing_random", ")" >>,
     Symbols(<< "C7", "D7", "E7", "F7", "G7", "A7", "B7", "C#7", "D#7", "F#7", "G#7", "A#7" >>) >>,
  << <<"9-8">>, <<"u95C7u306Eu796Du58C7">>,
     << "4u548Cu97F3", " ",
        "u30DEu30A4u30CAu30FCu30BBu30D6u30F3u30B9u30D5u30E9u30C3u30C8u30D5u30A1u30A4u30D6",
        "(", "u5168u3066u306Eu30EBu30FCu30C8u3001timing_random", ")" >>,
     Symbols(<< "Cm7b5", "Dm7b5", "Em7b5", "Fm7b5", "Gm7b5", "Am7b5", "Bm7b5", "C#m7b5",
        "D#m7b5", "F#m7b5", "G#m7b5", "A#m7b5" >>) >>,
  << <<"9-9">>, <<"u5F71u306Eu56DEu5ECA">>,
     << "4u548Cu97F3", " ", "u307Eu3068u30811.M7", " ", "m7", " ", "7", " ", "m7", "(", "b5",
        ")", "(", "u5168u3066u306Eu30EBu30FCu30C8u3001single", ")" >>,
     Symbols(<< "CM7", "DM7", "EM7", "FM7", "GM7", "AM7", "BM7", "C#M7", "D#M7", "F#M7",
        "G#M7", "A#M7", "Cm7", "Dm7", "Em7", "Fm7", "Gm7", "Am7", "Bm7", "C#m7", "D#m7",
        "F#m7", "G#m7", "A#m7", "C7", "D7", "E7", "F7", "G7", "A7", "B7", "C#7", "D#7", "F#7",
        "G#7", "A#7", "Cm7b5", "Dm7b5", "Em7b5", "Fm7b5", "Gm7b5", "Am7b5", "Bm7b5", "C#m7b5",
        "D#m7b5", "F#m7b5", "G#m7b5", "A#m7b5" >>) >>,
  << <<"9-10">>, <<"u51A5u5E9Cu3078u306Eu5165u308Au53E3">>,
     << "4u548Cu97F3", " ", "u307Eu3068u30812.M7", " ", "m7", " ", "7", " ", "m7", "(", "b5",
        ")", "(", "u5168u3066u306Eu30EBu30FCu30C8u3001timing_random", ")" >>,
     Symbols(<< "CM7", "DM7", "EM7", "FM7", "GM7", "AM7", "BM7", "C#M7", "D#M7", "F#M7",
        "G#M7", "A#M7", "Cm7", "Dm7", "Em7", "Fm7", "Gm7", "Am7", "Bm7", "C#m7", "D#m7",
        "F#m7", "G#m7", "A#m7", "C7", "D7", "E7", "F7", "G7", "A7", "B7", "C#7", "D#7", "F#7",
        "G#7", "A#7", "Cm7b5", "Dm7b5", "Em7b5", "Fm7b5", "Gm7b5", "Am7b5", "Bm7b5", "C#m7b5",
        "D#m7b5", "F#m7b5", "G#m7b5", "A#m7b5" >>) >>
  >>

Stages10 ==
  <<
  << <<"10-1">>, <<"u5FD8u5374u306Eu5893u5730">>,
     << "u305Du306Eu4ED6u306Eu30BBu30D6u30F3u30B9", " ",
        "u30DEu30A4u30CAu30FCu30E1u30B8u30E3u30FCu30BBu30D6u30F3u30B9", "(",
        "u5168u3066u306Eu30EBu30FCu30C8u3001single", ")" >>,
     Symbols(<< "Cm/maj7", "Dm/maj7", "Em/maj7", "Fm/maj7", "Gm/maj7", "Am/maj7", "Bm/maj7",
        "C#m/maj7", "D#m/maj7", "F#m/maj7", "G#m/maj7", "A#m/maj7" >>) >>,
  << <<"10-2">>, <<"u546Au308Fu308Cu305Fu5EC3u6751">>,
     << "u305Du306Eu4ED6u306Eu30BBu30D6u30F3u30B9", " ", "u30AAu30FCu30B0u30E1u30F3u30C8", "(",
        "u5168u3066u306Eu30EBu30FCu30C8u3001single", ")" >>,
     Symbols(<< "Caug7", "Daug7", "Eaug7", "Faug7", "Gaug7", "Aaug7", "Baug7", "C#aug7",
        "D#aug7", "F#aug7", "G#aug7", "A#aug7" >>) >>,
  << <<"10-3">>, <<"u5E7Du970Au5217u8ECAu306Eu99C5">>,
     << "u305Du306Eu4ED6u306Eu30BBu30D6u30F3u30B9", " ", "u30C7u30A3u30DFu30CBu30C3u30B7u30E5",
        "(", "u5168u3066u306Eu30EBu30FCu30C8u3001single", ")" >>,
     Symbols(<< "Cdim7", "Ddim7", "Edim7", "Fdim7", "Gdim7", "Adim7", "Bdim7", "C#dim7",
        "D#dim7", "F#dim7", "G#dim7", "A#dim7" >>) >>,
  << <<"10-4">>, <<"u30ABu30DCu30C1u30E3u306Eu7551">>,
     << "u305Du306Eu4ED6u306Eu30BBu30D6u30F3u30B9", " ", "7Sus4", "(",
        "u5168u3066u306Eu30EBu30FCu30C8u3001single", ")" >>,
     Symbols(<< "C7sus4", "D7sus4", "E7sus4", "F7sus4", "G7sus4", "A7sus4", "B7sus4",
        "C#7sus4", "D#7sus4", "F#7sus4", "G#7sus4", "A#7sus4" >>) >>,
  << <<"10-5">>, <<"u9B54u5973u306Eu9928">>,
     << "u305Du306Eu4ED6u306Eu30BBu30D6u30F3u30B9", " ",
        "u30DEu30A4u30CAu30FCu30E1u30B8u30E3u30FCu30BBu30D6u30F3u30B9", "(",
        "u5168u3066u306Eu30EBu30FCu30C8u3001timing_random", ")" >>,
     Symbols(<< "Cm/maj7", "Dm/maj7", "Em/maj7", "Fm/maj7", "Gm/maj7", "Am/maj7", "Bm/maj7",
        "C#m/maj7", "D#m/maj7", "F#m/maj7", "G#m/maj7", "A#m/maj7" >>) >>,
  << <<"10-6">>, <<"u8840u306Eu6C60">>,
     << "u305Du306Eu4ED6u306Eu30BBu30D6u30F3u30B9", " ", "u30AAu30FCu30B0u30E1u30F3u30C8", "(",
        "u5168u3066u306Eu30EBu30FCu30C8u3001timing_random", ")" >>,
     Symbols(<< "Caug7", "Daug7", "Eaug7", "Faug7", "Gaug7", "Aaug7", "Baug7", "C#aug7",
        "D#aug7", "F#aug7", "G#aug7", "A#aug7" >>) >>,
  << <<"10-7">>, <<"u67AFu308Cu6728u306Eu68EE">>,
     << "u305Du306Eu4ED6u306Eu30BBu30D6u30F3u30B9", " ", "u30C7u30A3u30DFu30CBu30C3u30B7u30E5",
        "(", "u5168u3066u306Eu30EBu30FCu30C8u3001timing_random", ")" >>,
     Symbols(<< "Cdim7", "Ddim7", "Edim7", "Fdim7", "Gdim7", "Adim7", "Bdim7", "C#dim7",
        "D#dim7", "F#dim7", "G#dim7", "A#dim7" >>) >>,
  << <<"10-8">>, <<"u95C7u306Eu796Du58C7">>,
     << "u305Du306Eu4ED6u306Eu30BBu30D6u30F3u30B9", " ", "7Sus4", "(",
        "u5168u3066u306Eu30EBu30FCu30C8u3001timing_random", ")" >>,
     Symbols(<< "C7sus4", "D7sus4", "E7sus4", "F7sus4", "G7sus4", "A7sus4", "B7sus4",
        "C#7sus4", "D#7sus4", "F#7sus4", "G#7sus4", "A#7sus4" >>) >>,
  << <<"10-9">>, <<"u5F71u306Eu56DEu5ECA">>,
     << "u305Du306Eu4ED6u306Eu30BBu30D6u30F3u30B9", " ", "u307Eu3068u3081", " ", "mM7", " ",
        "aug7", " ", "dim7", " ", "7sus4", "(",
        "u5168u3066u306Eu30EBu30FCu30C8u3001timing_random", ")" >>,
     Symbols(<< "Cm/maj7", "Dm/maj7", "Em/maj7", "Fm/maj7", "Gm/maj7", "Am/maj7", "Bm/maj7",
        "C#m/maj7", "D#m/maj7", "F#m/maj7", "G#m/maj7", "A#m/maj7", "Caug7", "Daug7", "Eaug7",
        "Faug7", "Gaug7", "Aaug7", "Baug7", "C#aug7", "D#aug7", "F#aug7", "G#aug7", "A#aug7",
        "Cdim7", "Ddim7", "Edim7", "Fdim7", "Gdim7", "Adim7", "Bdim7", "C#dim7", "D#dim7",
        "F#dim7", "G#dim7", "A#dim7", "C7sus4", "D7sus4", "E7sus4", "F7sus4", "G7sus4",
        "A7sus4", "B7sus4", "C#7sus4", "D#7sus4", "F#7sus4", "G#7sus4", "A#7sus4" >>) >>,
  << <<"10-10">>, <<"u51A5u5E9Cu3078u306Eu5165u308Au53E3">>,
     << "4u548Cu97F3u7DCFu307Eu3068u3081", " ", "M7", " ", "m7", " ", "7", " ", "m7", "(",
        "b5", ")", " ", "mM7", " ", "aug7", " ", "dim7", " ", "7sus4", "(",
        "u5168u3066u306Eu30EBu30FCu30C8u3001timing_random", ")" >>,
     Symbols(<< "CM7", "DM7", "EM7", "FM7", "GM7", "AM7", "BM7", "C#M7", "D#M7", "F#M7",
        "G#M7", "A#M7", "Cm7", "Dm7", "Em7", "Fm7", "Gm7", "Am7", "Bm7", "C#m7", "D#m7",
        "F#m7", "G#m7", "A#m7", "C7", "D7", "E7", "F7", "G7", "A7", "B7", "C#7", "D#7", "F#7",
        "G#7", "A#7", "Cm7b5", "Dm7b5", "Em7b5", "Fm7b5", "Gm7b5", "Am7b5", "Bm7b5", "C#m7b5",
        "D#m7b5", "F#m7b5", "G#m7b5", "A#m7b5", "Cm/maj7", "Dm/maj7", "Em/maj7", "Fm/maj7",
        "Gm/maj7", "Am/maj7", "Bm/maj7", "C#m/maj7", "D#m/maj7", "F#m/maj7", "G#m/maj7",
        "A#m/maj7", "Caug7", "Daug7", "Eaug7", "Faug7", "Gaug7", "Aaug7", "Baug7", "C#aug7",
        "D#aug7", "F#aug7", "G#aug7", "A#aug7", "Cdim7", "Ddim7", "Edim7", "Fdim7", "Gdim7",
        "Adim7", "Bdim7", "C#dim7", "D#dim7", "F#dim7", "G#dim7", "A#dim7", "C7sus4", "D7sus4",
        "E7sus4", "F7sus4", "G7sus4", "A7sus4", "B7sus4", "C#7sus4", "D#7sus4", "F#7sus4",
        "G#7sus4", "A#7sus4" >>) >>
  >>

\* The seven lines printed before the loop (lines 78-84), one text per print.
HEADER_LINES ==
  <<
    \* line 78
    << "--", " ",
       "u30D5u30A1u30F3u30BFu30B8u30FCu30E2u30FCu30C9BASICu30B9u30C6u30FCu30B86-10u3092u8FFDu52A0" >>,
    \* line 79
    << "INSERT", " ", "INTO", " ", "fantasy_stages", " ", "(" >>,
    \* line 80
    << " ", " ", "stage_number", ",", " ", "name", ",", " ", "description", ",", " ", "max_hp", ",",
       " ", "question_count", ",", " ", "enemy_gauge_seconds", "," >>,
    \* line 81
    << " ", " ", "mode", ",", " ", "allowed_chords", ",", " ", "chord_progression", ",", " ",
       "bgm_url", ",", " ", "show_guide", ",", " ", "enemy_count", "," >>,
    \* line 82
    << " ", " ", "enemy_hp", ",", " ", "min_damage", ",", " ", "max_damage", ",", " ",
       "simultaneous_monster_count", ",", " ", "stage_tier", "," >>,
    \* line 83
    << " ", " ", "usage_type", ",", " ", "is_sheet_music_mode", ",", " ", "required_clears_for_next" >>,
    \* line 84
    << ")", " ", "VALUES" >>
  >>
\* Mutant: the stage 10 block pasted from stage 9 without renumbering.
STAGES_DATA_Stage9Twice == Stages6 \o Stages7 \o Stages8 \o Stages9 \o Stages9

\* The catalog in authored order (lines 19-75).
STAGES_DATA == Stages6 \o Stages7 \o Stages8 \o Stages9 \o Stages10

\* -------------------------------------------------------------------- state
VARIABLES
  stages_data,    \* the catalog (line 19): a sequence of <<number, name, description, chords>>
  bgm_urls,       \* the resource pool (line 7)
  pc,             \* the statement the script is at
  line,           \* how many of the header prints (lines 78-84) have run
  it,             \* how many entries enumerate() has handed out
  i, stage_number, name, description, chords,   \* the loop variables (line 87)
  chord_objects, chord_array, bgm_url, value,   \* the body's variables (lines 88-93)
  values,         \* the list of built value-groups (line 86)
  stdout,         \* everything printed so far
  err,            \* the uncaught exception that ended the run, "" for none
  run,            \* which execution of the script this is
  prev_stdout, prev_err   \* what the previous execution printed and how it ended

inputs == <<stages_data, bgm_urls>>
locals == <<i, stage_number, name, description, chords, chord_objects, chord_array,
            bgm_url, value>>
history == <<run, prev_stdout, prev_err>>
vars == <<stages_data, bgm_urls, pc, line, it, i, stage_number, name, description, chords,
          chord_objects, chord_array, bgm_url, value, values, stdout, err, run,
          prev_stdout, prev_err>>

\* A name not bound yet is modelled as the empty text (an integer: as 0).
Unbound == <<>>

\* The state of a process that is about to run line 78.
ProcessStart ==
  /\ pc = "print_header" /\ line = 0 /\ it = 0 /\ i = 0
  /\ stage_number = Unbound /\ name = Unbound /\ description = Unbound
  /\ chords = Unbound /\ chord_objects = Unbound /\ chord_array = Unbound
  /\ bgm_url = Unbound /\ value = Unbound /\ values = Unbound
  /\ stdout = <<>> /\ err = ""

\* ----------------------------------------------------------- Python pieces
\* sep.join(parts) on texts: the parts in order with sep between neighbours
\* (computed by halves, which keeps the evaluation shallow on long lists).
RECURSIVE Join(_, _)
Join(sep, parts) ==
  IF parts = <<>> THEN <<>>
  ELSE IF Len(parts) = 1 THEN parts[1]
  ELSE LET h == Len(parts) \div 2
       IN  Join(sep, SubSeq(parts, 1, h)) \o sep \o Join(sep, SubSeq(parts, h + 1, Len(parts)))

\* Mutant: every quote character of s doubled before it is put between quotes.
RECURSIVE Doubled(_)
Doubled(s) ==
  IF s = <<>> THEN s
  ELSE (IF s[1] = "'" THEN <<"'", "'">> ELSE <<s[1]>>) \o Doubled(Tail(s))
QuotedEscaped(s) == <<"'">> \o Doubled(s) \o <<"'">>

\* '{s}' inside an f-string: the string between two quote characters, as is.
Quoted(s) == <<"'">> \o s \o <<"'">>

\* f"jsonb_build_object('chord', '{chord}', 'octave', 4, 'inversion', 0)"
ChordObject(chord) ==
  <<"jsonb_build_object", "(">> \o Quoted(<<"chord">>) \o <<",", " ">> \o Quoted(chord)
    \o <<",", " ">> \o Quoted(<<"octave">>) \o <<",", " ", "4", ",", " ">>
    \o Quoted(<<"inversion">>) \o <<",", " ", "0", ")">>

\* Mutant: the objects in reverse order.
create_chord_objects_reversed(cs) ==
  [k \in 1..Len(cs) |-> ChordObject(cs[Len(cs) + 1 - k])]

\* The list comprehension of create_chord_objects (lines 15-16).
create_chord_objects(cs) == [k \in 1..Len(cs) |-> ChordObject(cs[k])]

\* f"jsonb_build_array({', '.join(chord_objects)})" (line 89)
ChordArray(objects) ==
  <<"jsonb_build_array", "(">> \o Join(<<",", " ">>, objects) \o <<")">>

\* Mutant: the rotation starts one place late.
SelectBgmOffByOne(urls, k) == urls[((k + 1) % Len(urls)) + 1]

\* Mutant: the rotation starts at a place that moves from one execution to the next.
SelectBgmByRun(urls, k) == urls[((k + run) % Len(urls)) + 1]

\* bgm_urls[i % len(bgm_urls)] for a non-empty pool (line 91); k is the
\* zero-based i, and Python's index k is TLA+'s k + 1.
SelectBgm(urls, k) == urls[(k % Len(urls)) + 1]

\* Mutant: the usage_type value left out of the group.
RecordValueNoUsageType(sn, nm, desc, array, url) ==
  <<"(">> \o Quoted(sn) \o <<",", " ">> \o Quoted(nm) \o <<",", " ">> \o Quoted(desc)
    \o <<",", " ", "5", ",", " ", "10", ",", " ", "5.0", ",", " ">> \o Quoted(<<"single">>)
    \o <<",", " ">> \o array
    \o <<",", " ", "'", "[]", "'", "::jsonb", ",", " ">> \o Quoted(url)
    \o <<",", " ", "false", ",", " ", "1", ",", " ", "5", ",", " ", "1", ",", " ", "1",
         ",", " ", "1", ",", " ">> \o Quoted(<<"basic">>)
    \o <<",", " ", "false", ",", " ", "5", ")">>

\* Mutant: the mode taken from the description when it names timing_random.
NamesTimingRandom(desc) ==
  \E j \in 1..Len(desc) : desc[j] = "u5168u3066u306Eu30EBu30FCu30C8u3001timing_random"
RecordValueModeFromDescription(sn, nm, desc, array, url) ==
  <<"(">> \o Quoted(sn) \o <<",", " ">> \o Quoted(nm) \o <<",", " ">> \o Quoted(desc)
    \o <<",", " ", "5", ",", " ", "10", ",", " ", "5.0", ",", " ">>
    \o Quoted(IF NamesTimingRandom(desc) THEN <<"timing_random">> ELSE <<"single">>)
    \o <<",", " ">> \o array
    \o <<",", " ", "'", "[]", "'", "::jsonb", ",", " ">> \o Quoted(url)
    \o <<",", " ", "false", ",", " ", "1", ",", " ", "5", ",", " ", "1", ",", " ", "1",
         ",", " ", "1", ",", " ">> \o Quoted(<<"basic">>) \o <<",", " ">>
    \o Quoted(<<"fantasy">>) \o <<",", " ", "false", ",", " ", "5", ")">>

\* The f-string of line 93.
RecordValue(sn, nm, desc, array, url) ==
  <<"(">> \o Quoted(sn) \o <<",", " ">> \o Quoted(nm) \o <<",", " ">> \o Quoted(desc)
    \o <<",", " ", "5", ",", " ", "10", ",", " ", "5.0", ",", " ">> \o Quoted(<<"single">>)
    \o <<",", " ">> \o array
    \o <<",", " ", "'", "[]", "'", "::jsonb", ",", " ">> \o Quoted(url)
    \o <<",", " ", "false", ",", " ", "1", ",", " ", "5", ",", " ", "1", ",", " ", "1",
         ",", " ", "1", ",", " ">> \o Quoted(<<"basic">>) \o <<",", " ">>
    \o Quoted(<<"fantasy">>) \o <<",", " ", "false", ",", " ", "5", ")">>

\* print(s): the text and a newline appended to standard output.
print(sink, s) == sink \o s \o <<"\n">>

\* ------------------------------------------------------------------ inputs
\* Entry e with its chord list cut to its first m symbols.
Truncated(e, m) ==
  <<e[1], e[2], e[3], SubSeq(e[4], 1, IF m < Len(e[4]) THEN m ELSE Len(e[4]))>>

\* n consecutive entries of the catalog from position a on; the k-th keeps
\* (m + k - 1) mod (MaxChords + 1) of its chords, so chord counts differ inside
\* one catalog.
Window(a, n, m) ==
  [k \in 1..n |-> Truncated(STAGES_DATA[a + k - 1], (m + k - 1) % (MaxChords + 1))]

\* A pool of the first p resource URLs.
Pool(p) == SubSeq(BGM_URLS, 1, IF p < Len(BGM_URLS) THEN p ELSE Len(BGM_URLS))

\* Entry e with an apostrophe inside its display name.
WithApostrophe(e) == <<e[1], e[2] \o <<"'", "s">>, e[3], e[4]>>

Init ==
  /\ \E n \in 0..MaxStages, m \in 0..MaxChords :
       \E a \in 1..(Len(STAGES_DATA) - n + 1) : stages_data = Window(a, n, m)
  /\ \E p \in 0..MaxPool : bgm_urls = Pool(p)
  /\ ProcessStart
  /\ run = 1 /\ prev_stdout = <<>> /\ prev_err = ""

\* As Init, with an apostrophe in the name of one entry of the catalog.
InitApostrophe ==
  /\ \E n \in 1..MaxStages, m \in 0..MaxChords :
       \E a \in 1..(Len(STAGES_DATA) - n + 1), q \in 1..n :
         stages_data = [Window(a, n, m) EXCEPT ![q] = WithApostrophe(@)]
  /\ \E p \in 0..MaxPool : bgm_urls = Pool(p)
  /\ ProcessStart
  /\ run = 1 /\ prev_stdout = <<>> /\ prev_err = ""

\* The script exactly as written: the whole catalog and the four URLs.
InitLiteral ==
  /\ stages_data = STAGES_DATA
  /\ bgm_urls = BGM_URLS
  /\ ProcessStart
  /\ run = 1 /\ prev_stdout = <<>> /\ prev_err = ""

\* ----------------------------------------------------------------- actions
\* Lines 78-84: the next of the seven header prints.
PrintHeader ==
  /\ pc = "print_header"
  /\ stdout' = print(stdout, HEADER_LINES[line + 1])
  /\ line' = line + 1
  /\ pc' = IF line + 1 = Len(HEADER_LINES) THEN "values_init" ELSE "print_header"
  /\ UNCHANGED <<inputs, it, locals, values, err, history>>

\* Line 86: values = []
ValuesInit ==
  /\ pc = "values_init"
  /\ values' = <<>>
  /\ pc' = "for"
  /\ UNCHANGED <<inputs, line, it, locals, stdout, err, history>>

\* Line 87: the for statement takes the next entry and unpacks it, or ends.
ForNext ==
  /\ pc = "for"
  /\ IF it < Len(stages_data)
       THEN /\ i' = it
            /\ stage_number' = stages_data[it + 1][1]
            /\ name' = stages_data[it + 1][2]
            /\ description' = stages_data[it + 1][3]
            /\ chords' = stages_data[it + 1][4]
            /\ it' = it + 1
            /\ pc' = "expand"
       ELSE /\ pc' = "print_values"
            /\ UNCHANGED <<it, i, stage_number, name, description, chords>>
  /\ UNCHANGED <<inputs, line, chord_objects, chord_array, bgm_url, value, values,
                 stdout, err, history>>

\* Lines 88-89: the voicing objects and the array literal around them.
Expand ==
  /\ pc = "expand"
  /\ chord_objects' = create_chord_objects(chords)
  /\ chord_array' = ChordArray(create_chord_objects(chords))
  /\ pc' = "assign_bgm"
  /\ UNCHANGED <<inputs, line, it, i, stage_number, name, description, chords, bgm_url,
                 value, values, stdout, err, history>>

\* Mutant: an empty pool yields a default reference instead of an error.
AssignBgmDefault ==
  /\ pc = "assign_bgm"
  /\ bgm_url' = IF Len(bgm_urls) = 0 THEN <<"None">> ELSE bgm_urls[(i % Len(bgm_urls)) + 1]
  /\ pc' = "materialize"
  /\ UNCHANGED <<inputs, line, it, i, stage_number, name, description, chords,
                 chord_objects, chord_array, value, values, stdout, err, history>>

\* Line 91: i % len(bgm_urls) raises ZeroDivisionError on an empty pool, which
\* nothing catches; otherwise the URL at that index.
AssignBgm ==
  /\ pc = "assign_bgm"
  /\ IF Len(bgm_urls) = 0
       THEN /\ err' = "ZeroDivisionError"
            /\ pc' = "error"
            /\ UNCHANGED bgm_url
       ELSE /\ bgm_url' = SelectBgm(bgm_urls, i)
            /\ pc' = "materialize"
            /\ UNCHANGED err
  /\ UNCHANGED <<inputs, line, it, i, stage_number, name, description, chords,
                 chord_objects, chord_array, value, values, stdout, history>>

\* Mutant: the new group put at the head of the list.
MaterializeAtHead ==
  /\ pc = "materialize"
  /\ value' = RecordValue(stage_number, name, description, chord_array, bgm_url)
  /\ values' = <<RecordValue(stage_number, name, description, chord_array, bgm_url)>>
                  \o values
  /\ pc' = "for"
  /\ UNCHANGED <<inputs, line, it, i, stage_number, name, description, chords,
                 chord_objects, chord_array, bgm_url, stdout, err, history>>

\* Lines 93-94: the value-group is built and appended.
Materialize ==
  /\ pc = "materialize"
  /\ value' = RecordValue(stage_number, name, description, chord_array, bgm_url)
  /\ values' = Append(values, RecordValue(stage_number, name, description, chord_array,
                                          bgm_url))
  /\ pc' = "for"
  /\ UNCHANGED <<inputs, line, it, i, stage_number, name, description, chords,
                 chord_objects, chord_array, bgm_url, stdout, err, history>>

\* Line 96: print(",\n".join(values))
PrintValues ==
  /\ pc = "print_values"
  /\ stdout' = print(stdout, Join(<<",", "\n">>, values))
  /\ pc' = "print_close"
  /\ UNCHANGED <<inputs, line, it, locals, values, err, history>>

\* Line 97: print(";")
PrintClose ==
  /\ pc = "print_close"
  /\ stdout' = print(stdout, <<";">>)
  /\ pc' = "done"
  /\ UNCHANGED <<inputs, line, it, locals, values, err, history>>

\* The script is run again: a new process on the same source, so the same
\* catalog and pool, and nothing else kept.
Rerun ==
  /\ pc \in {"done", "error"}
  /\ run < NumRuns
  /\ run' = run + 1 /\ prev_stdout' = stdout /\ prev_err' = err
  /\ pc' = "print_header" /\ line' = 0 /\ it' = 0 /\ i' = 0
  /\ stage_number' = Unbound /\ name' = Unbound /\ description' = Unbound
  /\ chords' = Unbound /\ chord_objects' = Unbound /\ chord_array' = Unbound
  /\ bgm_url' = Unbound /\ value' = Unbound /\ values' = Unbound
  /\ stdout' = <<>> /\ err' = ""
  /\ UNCHANGED inputs

Next ==
  \/ PrintHeader \/ ValuesInit \/ ForNext \/ Expand \/ AssignBgm \/ Materialize
  \/ PrintValues \/ PrintClose

NextRerun == Next \/ Rerun

Spec == Init /\ [][Next]_vars
SpecApostrophe == InitApostrophe /\ [][Next]_vars
SpecLiteral == InitLiteral /\ [][Next]_vars
SpecRerun == Init /\ [][NextRerun]_vars

\* ------------------------------------------------- reading the emitted text
\* The statement is read back the way its consumer reads it: a comma separates
\* two values only outside quotes and outside parentheses.

\* One token read: st.inq says whether the reader is inside quotes, st.depth
\* how many parentheses are open, st.commas lists the places of the commas met
\* outside both.
ReadToken(st, tok, k) ==
  IF tok = "'" THEN [st EXCEPT !.inq = ~@]
  ELSE IF st.inq THEN st
  ELSE IF tok = "(" THEN [st EXCEPT !.depth = @ + 1]
  ELSE IF tok = ")" THEN [st EXCEPT !.depth = @ - 1]
  ELSE IF tok = "," /\ st.depth = 0 THEN [st EXCEPT !.commas = Append(@, k)]
  ELSE st

\* Tokens lo..hi of t read from left to right, starting in state st.  The range
\* is read by halves: left is the state the left half ends in, and the right
\* half is read from it (left is bound by a quantifier so that it is a value
\* before the right half is entered, which keeps the evaluation shallow).
RECURSIVE ReadRange(_, _, _, _)
ReadRange(t, lo, hi, st) ==
  IF lo > hi THEN st
  ELSE IF lo = hi THEN ReadToken(st, t[lo], lo)
  ELSE LET mid == (lo + hi) \div 2
       IN  CHOOSE r \in {ReadRange(t, mid + 1, hi, left) :
                           left \in {ReadRange(t, lo, mid, st)}} : TRUE

Read(t) == ReadRange(t, 1, Len(t), [inq |-> FALSE, depth |-> 0, commas |-> <<>>])

IsBlank(tok) == tok \in {" ", "\n"}

\* t without its leading and trailing blanks.
RECURSIVE Strip(_)
Strip(t) ==
  IF t = <<>> THEN t
  ELSE IF IsBlank(t[1]) THEN Strip(Tail(t))
  ELSE IF IsBlank(t[Len(t)]) THEN Strip(SubSeq(t, 1, Len(t) - 1))
  ELSE t

\* The top-level comma-separated items of t, in order, each without the blanks
\* around it.
TopLevelItems(t) ==
  IF Strip(t) = <<>> THEN <<>>
  ELSE LET c == Read(t).commas
       IN  [j \in 1..(Len(c) + 1) |->
              Strip(SubSeq(t, IF j = 1 THEN 1 ELSE c[j - 1] + 1,
                              IF j = Len(c) + 1 THEN Len(t) ELSE c[j] - 1))]

\* The positional values of a value-group "( ... )".
GroupItems(v) ==
  IF Len(v) >= 2 /\ v[1] = "(" /\ v[Len(v)] = ")"
    THEN TopLevelItems(SubSeq(v, 2, Len(v) - 1))
    ELSE <<>>

\* The arguments of a call "fname( ... )".
IsCall(fname, t) == Len(t) >= 3 /\ t[1] = fname /\ t[2] = "(" /\ t[Len(t)] = ")"
CallArgs(t) == TopLevelItems(SubSeq(t, 3, Len(t) - 1))

\* s between two quote characters.
InQuotes(s) == <<"'">> \o s \o <<"'">>
IsQuoted(t) == Len(t) >= 2 /\ t[1] = "'" /\ t[Len(t)] = "'"
Unquoted(t) == SubSeq(t, 2, Len(t) - 1)

\* The index of the first token tok of t at or after k, Len(t) + 1 when none.
RECURSIVE IndexFrom(_, _, _)
IndexFrom(t, tok, k) ==
  IF k > Len(t) \/ t[k] = tok THEN k ELSE IndexFrom(t, tok, k + 1)

\* The column names standard output carries between the header's parentheses.
PrintedColumns ==
  LET open  == IndexFrom(stdout, "(", 1)
      close == IndexFrom(stdout, ")", open + 1)
  IN  IF close > Len(stdout) THEN <<>>
      ELSE TopLevelItems(SubSeq(stdout, open + 1, close - 1))

\* The voicing a chord object literal denotes; the empty record's stand-in
\* when the text is no such literal.
NoVoicing == [chord |-> <<"?">>, octave |-> <<"?">>, inversion |-> <<"?">>]
VoicingOf(obj) ==
  IF ~IsCall("jsonb_build_object", obj) THEN NoVoicing
  ELSE LET a == CallArgs(obj)
       IN  IF /\ Len(a) = 6
              /\ a[1] = InQuotes(<<"chord">>) /\ a[3] = InQuotes(<<"octave">>)
              /\ a[5] = InQuotes(<<"inversion">>) /\ IsQuoted(a[2])
             THEN [chord |-> Unquoted(a[2]), octave |-> a[4], inversion |-> a[6]]
             ELSE NoVoicing

Voicing(chord) == [chord |-> chord, octave |-> <<"4">>, inversion |-> <<"0">>]

\* ------------------------------------------------------------------- claims

\* C1: create_chord_objects(L) yields exactly Len(L) voicing objects, the i-th
\* with chord L[i], octave 4 and inversion 0, and the allowed_chords value of
\* every built value-group holds exactly these objects in the same order.
C1_VoicingsFollowChordList ==
  /\ pc \in {"assign_bgm", "materialize"} =>
       /\ Len(chord_objects) = Len(chords)
       /\ \A j \in 1..Len(chords) : VoicingOf(chord_objects[j]) = Voicing(chords[j])
  /\ \A k \in 1..Len(values) :
       LET items == GroupItems(values[k])
           L     == stages_data[k][4]
           objs  == CallArgs(items[8])
       IN  /\ Len(items) >= 8
           /\ IsCall("jsonb_build_array", items[8])
           /\ Len(objs) = Len(L)
           /\ \A j \in 1..Len(L) : VoicingOf(objs[j]) = Voicing(L[j])

\* A group built from an entry with two different chords.
C1_Witness ==
  /\ Len(values) >= 2
  /\ Len(stages_data[2][4]) >= 2
  /\ stages_data[2][4][1] /= stages_data[2][4][2]

\* C2: the bgm_url of the group at zero-based position i is
\* bgm_urls[i mod len(bgm_urls)]: a function of the position and the pool alone.
C2_BgmRoundRobin ==
  /\ pc = "materialize" => bgm_url = bgm_urls[(i % Len(bgm_urls)) + 1]
  /\ \A k \in 1..Len(values) :
       LET items == GroupItems(values[k])
       IN  /\ Len(bgm_urls) > 0
           /\ Len(items) >= 10
           /\ items[10] = InQuotes(bgm_urls[((k - 1) % Len(bgm_urls)) + 1])

\* The rotation has wrapped: a pool of two URLs and a third group built.
C2_Witness ==
  /\ Len(bgm_urls) = 2 /\ Len(values) = 3
  /\ GroupItems(values[3])[10] = InQuotes(bgm_urls[1])
  /\ GroupItems(values[2])[10] = InQuotes(bgm_urls[2])

\* C3: every built value-group has as many top-level values as the printed
\* header has column names, 20, whatever its chord count, and in the header's
\* order: number, name and description first, the chord array under
\* allowed_chords, the empty array under chord_progression, the URL under bgm_url.
C3_GroupMatchesHeader ==
  LET cols == PrintedColumns
  IN
  \A k \in 1..Len(values) :
    LET items == GroupItems(values[k])
    IN  /\ Len(cols) = 20
        /\ Len(items) = Len(cols)
        /\ cols[1] = <<"stage_number">> /\ items[1] = InQuotes(stages_data[k][1])
        /\ cols[2] = <<"name">> /\ items[2] = InQuotes(stages_data[k][2])
        /\ cols[3] = <<"description">> /\ items[3] = InQuotes(stages_data[k][3])
        /\ cols[8] = <<"allowed_chords">> /\ IsCall("jsonb_build_array", items[8])
        /\ cols[9] = <<"chord_progression">> /\ items[9] = <<"'", "[]", "'", "::jsonb">>
        /\ cols[10] = <<"bgm_url">> /\ IsQuoted(items[10])
        /\ \E u \in 1..Len(bgm_urls) : Unquoted(items[10]) = bgm_urls[u]

\* Two groups with different chord counts, the first from a description that
\* holds a comma of its own.
C3_Witness ==
  /\ Len(values) >= 2
  /\ Len(stages_data[1][4]) /= Len(stages_data[2][4])
  /\ \E j \in 1..Len(stages_data[1][3]) : stages_data[1][3][j] = ","

\* The values every group carries at the columns that are not taken from the
\* entry, by column.
BatchConstants ==
  [c \in {4, 5, 6, 7, 9} \cup 11..20 |->
     CASE c = 4 -> <<"5">>
       [] c = 5 -> <<"10">>
       [] c = 6 -> <<"5.0">>
       [] c = 7 -> InQuotes(<<"single">>)
       [] c = 9 -> <<"'", "[]", "'", "::jsonb">>
       [] c = 11 -> <<"false">>
       [] c = 12 -> <<"1">>
       [] c = 13 -> <<"5">>
       [] c \in 14..16 -> <<"1">>
       [] c = 17 -> InQuotes(<<"basic">>)
       [] c = 18 -> InQuotes(<<"fantasy">>)
       [] c = 19 -> <<"false">>
       [] c = 20 -> <<"5">>]

\* C8: outside stage_number, name, description, allowed_chords and bgm_url every
\* built group carries the same constants: mode 'single', empty
\* chord_progression, tier 'basic', usage 'fantasy' and the fixed numbers and
\* booleans, whatever the entry's chords, description or position.
C8_BatchConstantsEverywhere ==
  \A k \in 1..Len(values) :
    LET items == GroupItems(values[k])
    IN  /\ Len(items) = 20
        /\ \A c \in DOMAIN BatchConstants : items[c] = BatchConstants[c]

\* A group built from stage 9-5, whose description names timing_random, after a
\* group with another chord count.
C8_Witness ==
  /\ Len(values) >= 2
  /\ stages_data[2][1] = <<"9-5">>
  /\ Len(stages_data[1][4]) /= Len(stages_data[2][4])

\* The places of token tok among tokens lo..hi of t, in increasing order.
RECURSIVE PlacesIn(_, _, _, _)
PlacesIn(t, tok, lo, hi) ==
  IF lo > hi THEN <<>>
  ELSE IF lo = hi THEN (IF t[lo] = tok THEN <<lo>> ELSE <<>>)
  ELSE LET mid == (lo + hi) \div 2
       IN  PlacesIn(t, tok, lo, mid) \o PlacesIn(t, tok, mid + 1, hi)

\* The printed text as lines: every print ends its text with a newline.
Lines(t) ==
  LET nl == PlacesIn(t, "\n", 1, Len(t))
  IN  [j \in 1..Len(nl) |-> SubSeq(t, IF j = 1 THEN 1 ELSE nl[j - 1] + 1, nl[j] - 1)]

\* The lines of t that hold a value-group: those whose first token opens a
\* parenthesis.
GroupLines(t) ==
  LET L == Lines(t) IN {k \in 1..Len(L) : L[k] /= <<>> /\ L[k][1] = "("}

\* C4: with an empty pool and a catalog of at least one entry the run ends in
\* an error at the first resource assignment (i = 0), it cannot end normally,
\* and no value-group is ever built or printed, so none carries a null,
\* undefined or default resource reference.
C4_EmptyPoolFailsAtFirstAssignment ==
  (bgm_urls = <<>> /\ stages_data /= <<>>) =>
    /\ pc \notin {"materialize", "print_values", "print_close", "done"}
    /\ pc \notin {"done", "error"} => ENABLED Next
    /\ pc = "error" => (err = "ZeroDivisionError" /\ i = 0 /\ it = 1)
    /\ bgm_url = Unbound /\ value = Unbound /\ values \in {Unbound, <<>>}
    /\ GroupLines(stdout) = {}

\* The run has stopped on the empty pool.
C4_Witness ==
  /\ bgm_urls = <<>> /\ stages_data /= <<>>
  /\ pc = "error" /\ err = "ZeroDivisionError"

\* C5: a run that fails has written nothing to standard output.
C5_FailedRunWritesNothing == err /= "" => stdout = <<>>

\* Lines h+1 .. of L are the statement: the INSERT INTO line, the column list
\* of 20 names, ") VALUES", one group per catalog entry in catalog order (each
\* but the last followed by a comma; one empty line when the catalog is empty),
\* and the closing ";" as the last line.
StatementAt(L, h) ==
  LET n == Len(stages_data)
      g == IF n = 0 THEN 1 ELSE n
  IN  /\ Len(L) = h + 6 + g + 1
      /\ L[h + 1] = <<"INSERT", " ", "INTO", " ", "fantasy_stages", " ", "(">>
      /\ Len(TopLevelItems(L[h + 2] \o L[h + 3] \o L[h + 4] \o L[h + 5])) = 20
      /\ L[h + 6] = <<")", " ", "VALUES">>
      /\ n = 0 => L[h + 7] = <<>>
      /\ \A k \in 1..n :
           LET ln  == L[h + 6 + k]
               grp == IF k < n THEN SubSeq(ln, 1, Len(ln) - 1) ELSE ln
           IN  /\ ln /= <<>>
               /\ k < n => ln[Len(ln)] = ","
               /\ Len(GroupItems(grp)) = 20
               /\ GroupItems(grp)[1] = InQuotes(stages_data[k][1])
      /\ L[Len(L)] = <<";">>

\* C6 as claimed: a successful run prints the statement and nothing else.
C6_OnlyTheStatement == pc = "done" => StatementAt(Lines(stdout), 0)

\* C6 as amended: a successful run prints one SQL comment line and then the
\* statement and nothing else: the INSERT INTO header with the column list, one
\* value-group per catalog entry in catalog order, the k-th carrying the k-th
\* stage_number, joined by the separator, and one closing marker after the last.
C6_CommentThenStatement ==
  pc = "done" =>
    LET L == Lines(stdout)
    IN  /\ Len(L) >= 1
        /\ Len(L[1]) = 3
        /\ SubSeq(L[1], 1, 2) = <<"--", " ">>
        /\ StatementAt(L, 1)

\* A finished run over three entries.
C6_Witness == pc = "done" /\ Len(stages_data) = 3 /\ GroupLines(stdout) = {8, 9, 10}

IsPrefix(s, t) == Len(s) <= Len(t) /\ s = SubSeq(t, 1, Len(s))

RECURSIVE FirstCommaFrom(_, _, _, _)
FirstCommaFrom(t, k, depth, inq) ==
  IF k > Len(t) THEN k
  ELSE IF t[k] = "'" THEN FirstCommaFrom(t, k + 1, depth, ~inq)
  ELSE IF inq THEN FirstCommaFrom(t, k + 1, depth, inq)
  ELSE IF t[k] = "(" THEN FirstCommaFrom(t, k + 1, depth + 1, inq)
  ELSE IF t[k] = ")" THEN FirstCommaFrom(t, k + 1, depth - 1, inq)
  ELSE IF t[k] = "," /\ depth = 0 THEN k
  ELSE FirstCommaFrom(t, k + 1, depth, inq)
FirstItem(v) ==
  IF Len(v) >= 2 /\ v[1] = "(" /\ v[Len(v)] = ")"
    THEN Strip(SubSeq(v, 2, FirstCommaFrom(v, 2, 0, FALSE) - 1))
    ELSE <<>>

\* C9: no two entries of the catalog share a stage_number, and no two built
\* value-groups carry the same one.
C9_StageNumbersUnique ==
  /\ \A j, k \in 1..Len(stages_data) :
       stages_data[j][1] = stages_data[k][1] => j = k
  /\ LET first == [k \in 1..Len(values) |-> FirstItem(values[k])]
     IN  \A j, k \in 1..Len(values) : first[j] = first[k] => j = k

\* All 46 groups are built, two of them (9-1 and 10-1) under the same name.
C9_Witness ==
  /\ Len(values) = 46 /\ Len(stages_data) = 46
  /\ stages_data[27][2] = stages_data[37][2]
  /\ FirstItem(values[27]) = <<"'", "9-1", "'">>
  /\ FirstItem(values[37]) = <<"'", "10-1", "'">>

HasApostrophe(s) == \E j \in 1..Len(s) : s[j] = "'"
QuoteCount(t) == Cardinality({j \in 1..Len(t) : t[j] = "'"})

\* C10: strings are emitted as they are.  For an entry whose name holds an
\* apostrophe the group is built without any error, it holds the name unchanged
\* between two quote characters right after the stage_number, and it is broken:
\* its quote characters are odd in number and it no longer reads as 20 values.
C10_ApostropheBreaksGroup ==
  /\ err /= "" => bgm_urls = <<>>
  /\ pc = "done" => Len(values) = Len(stages_data)
  /\ \A k \in 1..Len(values) :
       LET v   == values[k]
           nm  == stages_data[k][2]
           off == 1 + Len(InQuotes(stages_data[k][1])) + 2
       IN  HasApostrophe(nm) =>
             /\ err = ""
             /\ SubSeq(v, off + 1, off + Len(nm) + 2) = InQuotes(nm)
             /\ v[off + Len(nm) + 3] = ","
             /\ QuoteCount(v) % 2 = 1
             /\ Len(GroupItems(v)) /= 20

\* A run that finished with a group whose name holds an apostrophe.
C10_Witness ==
  /\ pc = "done" /\ err = ""
  /\ Len(values) >= 2 /\ HasApostrophe(stages_data[2][2])
  /\ QuoteCount(values[2]) % 2 = 1
====
